---------------------------- MODULE Spec2Model ----------------------------
(***************************************************************************)
(* A model of src/api.rs of sqlite-loadable-rs: the wrappers around the    *)
(* sqlite3 C extension API.                                                *)
(*                                                                         *)
(* Strings are sequences of one-character strings; the nul byte is the     *)
(* token "\\0".  A Rust &str is a record [body, blocks]: the characters of *)
(* body followed by blocks * 65536 filler bytes "x", which lets a string   *)
(* longer than i32::MAX bytes be written down.  Numbers wider than 32 bits *)
(* are kept as digit sequences.                                            *)
(***************************************************************************)
EXTENDS Integers, Sequences, FiniteSets, TLC

VARIABLES
    heap,     \* the allocator: Seq of [kind, content, frees]; an address is an index
    pending,  \* what the host holds with a destructor it has yet to invoke
    boxes,    \* the Box<T>s the caller owns: Seq of addresses
    args,     \* the host's sqlite3_value array: Seq of raw type codes
    values,   \* the Value structs built: Seq of [value, value_type]
    last      \* the last operation: [op, arg, res, calls (those made on the host)]

vars == <<heap, pending, boxes, args, values, last>>

(***************************************************************************)
(* Bounds of the model.                                                    *)
(***************************************************************************)
MaxAllocs == 2
MaxBoxes == 2
MaxFrags == 2
MaxValues == 2
NumArgs == 2

NUL == "\\0"
NULL == 0
None == [some |-> FALSE]
Some(x) == [some |-> TRUE, val |-> x]
NoCall == [op |-> "init"]

(***************************************************************************)
(* Characters and strings.                                                 *)
(***************************************************************************)
Upper == <<"A","B","C","D","E","F","G","H","I","J","K","L","M",
           "N","O","P","Q","R","S","T","U","V","W","X","Y","Z">>
Lower == <<"a","b","c","d","e","f","g","h","i","j","k","l","m",
           "n","o","p","q","r","s","t","u","v","w","x","y","z">>
Digits == <<"0","1","2","3","4","5","6","7","8","9">>

\* char::is_whitespace on the ASCII range, as str::trim uses it
IsWhitespace(c) == c \in {" ", "\t", "\n", "\r", "\f"}

\* char::to_lowercase on the ASCII range
ToLowerChar(c) ==
    IF \E i \in 1..Len(Upper) : Upper[i] = c
    THEN Lower[CHOOSE i \in 1..Len(Upper) : Upper[i] = c]
    ELSE c

\* str::to_lowercase
ToLowercase(s) == [i \in 1..Len(s) |-> ToLowerChar(s[i])]

\* str::trim: the slice between the first and the last non-whitespace character
Trim(s) ==
    LET keep == {i \in 1..Len(s) : ~IsWhitespace(s[i])}
    IN  IF keep = {} THEN <<>>
        ELSE SubSeq(s, CHOOSE i \in keep : \A j \in keep : i <= j,
                       CHOOSE i \in keep : \A j \in keep : i >= j)

\* str::contains with a string pattern
Contains(s, pat) ==
    \E i \in 1..(Len(s) - Len(pat) + 1) : SubSeq(s, i, i + Len(pat) - 1) = pat

\* str::is_empty
IsEmpty(s) == Len(s) = 0

(***************************************************************************)
(* ColumnAffinity::from_declared_type and                                  *)
(* ExtendedColumnAffinity::extended_column_affinity_from_type.             *)
(***************************************************************************)
KwInt == <<"i","n","t">>
KwChar == <<"c","h","a","r">>
KwClob == <<"c","l","o","b">>
KwText == <<"t","e","x","t">>
KwBlob == <<"b","l","o","b">>
KwReal == <<"r","e","a","l">>
KwFloa == <<"f","l","o","a">>
KwDoub == <<"d","o","u","b">>
KwJson == <<"j","s","o","n">>
KwBoolean == <<"b","o","o","l","e","a","n">>

\* from_declared_type with the "char"/"clob"/"text" test moved before the "int" test
from_declared_type_TextFirst(declared_type) ==
    LET lowered == ToLowercase(Trim(declared_type))
    IN  IF Contains(lowered, KwChar) \/ Contains(lowered, KwClob)
           \/ Contains(lowered, KwText) THEN "Text"
        ELSE IF Contains(lowered, KwInt) THEN "Integer"
        ELSE IF Contains(lowered, KwBlob) \/ IsEmpty(lowered) THEN "Blob"
        ELSE IF Contains(lowered, KwReal) \/ Contains(lowered, KwFloa)
                \/ Contains(lowered, KwDoub) THEN "Real"
        ELSE "Numeric"

from_declared_type(declared_type) ==
    LET lowered == ToLowercase(Trim(declared_type))
    IN  IF Contains(lowered, KwInt) THEN "Integer"
        ELSE IF Contains(lowered, KwChar) \/ Contains(lowered, KwClob)
                \/ Contains(lowered, KwText) THEN "Text"
        ELSE IF Contains(lowered, KwBlob) \/ IsEmpty(lowered) THEN "Blob"
        ELSE IF Contains(lowered, KwReal) \/ Contains(lowered, KwFloa)
                \/ Contains(lowered, KwDoub) THEN "Real"
        ELSE "Numeric"

extended_column_affinity_from_type(declared_type) ==
    LET lowered == ToLowercase(declared_type)
    IN  IF Contains(lowered, KwInt) THEN "Integer"
        ELSE IF Contains(lowered, KwChar) \/ Contains(lowered, KwClob)
                \/ Contains(lowered, KwText) THEN "Text"
        ELSE IF Contains(lowered, KwBlob) \/ IsEmpty(lowered) THEN "Blob"
        ELSE IF Contains(lowered, KwReal) \/ Contains(lowered, KwFloa)
                \/ Contains(lowered, KwDoub) THEN "Real"
        ELSE IF Contains(lowered, KwJson) THEN "Json"
        ELSE IF Contains(lowered, KwBoolean) THEN "Boolean"
        ELSE "Numeric"

(***************************************************************************)
(* Declared types: up to MaxFrags fragments, one after the other.          *)
(***************************************************************************)
StrIntegerText == <<"i","n","t","e","g","e","r"," ","t","e","x","t">>
StrVarchar255 == <<"V","A","R","C","H","A","R","(","2","5","5",")">>
StrDouble == <<"D","O","U","B","L","E">>
StrFoo == <<"F","O","O">>

Fragments ==
    { <<"i","n","t">>, <<"I","N","T">>, <<"i","n">>, <<"T">>,
      <<"C","h","a","r">>, <<"c","l","o","b">>, <<"T","E","X","T">>,
      <<"b","l","o","b">>, <<"R","E","A","L">>, <<"f","l","o","a">>,
      <<"D","o","u","b">>, <<"j","s","o","n">>,
      <<"B","O","O","L","E","A","N">>,
      <<" ">>, <<"\t">>, <<"\n">>, <<"(","8",")">>,
      StrIntegerText, StrVarchar255, StrDouble, StrFoo }

RECURSIVE Concats(_)
Concats(n) ==
    IF n = 0 THEN { <<>> }
    ELSE LET shorter == Concats(n - 1)
         IN  shorter \cup { s \o f : s \in shorter, f \in Fragments }

DeclaredTypes == Concats(MaxFrags)

(***************************************************************************)
(* The state every specification starts from: nothing allocated, nothing   *)
(* handed to the host, no call made.                                       *)
(***************************************************************************)
InitIdle ==
    /\ heap = <<>>
    /\ pending = {}
    /\ boxes = <<>>
    /\ args = <<>>
    /\ values = <<>>

(***************************************************************************)
(* SpecAffinity: the two classifiers applied to a declared type.           *)
(***************************************************************************)
InitAffinity ==
    /\ InitIdle
    /\ \E d \in DeclaredTypes : last = [op |-> "input", arg |-> d]

FromDeclaredType ==
    /\ last.op = "input"
    /\ last' = [op |-> "from_declared_type", arg |-> last.arg,
                res |-> from_declared_type(last.arg)]
    /\ UNCHANGED <<heap, pending, boxes, args, values>>

ExtendedFromType ==
    /\ last.op = "input"
    /\ last' = [op |-> "extended_column_affinity_from_type", arg |-> last.arg,
                res |-> extended_column_affinity_from_type(last.arg)]
    /\ UNCHANGED <<heap, pending, boxes, args, values>>

NextAffinity == FromDeclaredType \/ ExtendedFromType

SpecAffinity == InitAffinity /\ [][NextAffinity]_vars

\* s contains kw at some position, letter case ignored
ContainsCI(s, kw) ==
    \E i \in 1..(Len(s) - Len(kw) + 1) :
        \A k \in 1..Len(kw) : ToLowerChar(s[i + k - 1]) = kw[k]

\* nothing is left of s once the whitespace around it is removed
BlankOrEmpty(s) == \A i \in 1..Len(s) : IsWhitespace(s[i])

\* the affinity the precedence order of the documentation gives s
PrecedenceAffinity(s) ==
    IF ContainsCI(s, KwInt) THEN "Integer"
    ELSE IF \E kw \in {KwChar, KwClob, KwText} : ContainsCI(s, kw) THEN "Text"
    ELSE IF ContainsCI(s, KwBlob) \/ BlankOrEmpty(s) THEN "Blob"
    ELSE IF \E kw \in {KwReal, KwFloa, KwDoub} : ContainsCI(s, kw) THEN "Real"
    ELSE "Numeric"

\* C4: from_declared_type returns the first match of the precedence order
\* int > char/clob/text > blob/empty > real/floa/doub > Numeric, letter case
\* ignored; "integer text" is Integer, "VARCHAR(255)" Text, "DOUBLE" Real and
\* "FOO" Numeric; every declared type gets one of the five affinities.
C4_Precedence ==
    last.op = "from_declared_type" =>
        /\ last.res = PrecedenceAffinity(last.arg)
        /\ last.res \in {"Integer", "Text", "Blob", "Real", "Numeric"}
        /\ ContainsCI(last.arg, KwInt) => last.res = "Integer"
        /\ last.arg = StrIntegerText => last.res = "Integer"
        /\ last.arg = StrVarchar255 => last.res = "Text"
        /\ last.arg = StrDouble => last.res = "Real"
        /\ last.arg = StrFoo => last.res = "Numeric"

\* a declared type holding both "int" and "text" has been classified
C4_Witness ==
    /\ last.op = "from_declared_type"
    /\ last.arg = StrIntegerText
    /\ last.res = "Integer"

\* C5: each classifier returns for s what it returns for s trimmed, so a
\* whitespace-only declared type is Blob for both.
C5_TrimmedBoth ==
    /\ last.op = "from_declared_type" =>
            /\ last.res = from_declared_type(Trim(last.arg))
            /\ BlankOrEmpty(last.arg) => last.res = "Blob"
    /\ last.op = "extended_column_affinity_from_type" =>
            /\ last.res = extended_column_affinity_from_type(Trim(last.arg))
            /\ BlankOrEmpty(last.arg) => last.res = "Blob"

(***************************************************************************)
(* Rust strings and their lengths.                                         *)
(***************************************************************************)
Block == 256 * 256
HalfBlocks == 128 * 256

\* a &str: body, then blocks * Block filler bytes "x"
Str(body, blocks) == [body |-> body, blocks |-> blocks]

\* str::len as a usize, in base Block: hi * Block + lo
ByteLen(text) == [hi |-> text.blocks, lo |-> Len(text.body)]

\* the position of the first nul byte, as CString::new looks for it
HasNul(text) == \E i \in 1..Len(text.body) : text.body[i] = NUL

\* usize -> c_int by try_into: an error above i32::MAX
TryIntoI32(len) ==
    IF len.hi < HalfBlocks
    THEN [ok |-> TRUE, val |-> len.hi * Block + len.lo]
    ELSE [ok |-> FALSE]

\* usize -> i32 by `as`: the low 32 bits, read as two's complement
AsI32(len) ==
    LET h == len.hi % Block
    IN  IF h < HalfBlocks THEN h * Block + len.lo
        ELSE (h - Block) * Block + len.lo

(***************************************************************************)
(* str::parse::<i32>, ::<i64> and ::<f64>.  An integer is                   *)
(* [neg, mag]: its sign and the decimal digits of its magnitude without    *)
(* leading zeros.                                                          *)
(***************************************************************************)
IsDigit(c) == \E i \in 1..Len(Digits) : Digits[i] = c
DigitVal(c) == (CHOOSE i \in 1..Len(Digits) : Digits[i] = c) - 1
AllDigits(s) == \A i \in 1..Len(s) : IsDigit(s[i])

StripLeadingZeros(ds) ==
    LET nz == {i \in 1..Len(ds) : ds[i] # "0"}
    IN  IF nz = {} THEN <<"0">>
        ELSE SubSeq(ds, CHOOSE i \in nz : \A j \in nz : i <= j, Len(ds))

StripTrailingZeros(ds) ==
    LET nz == {i \in 1..Len(ds) : ds[i] # "0"}
    IN  IF nz = {} THEN <<>>
        ELSE SubSeq(ds, 1, CHOOSE i \in nz : \A j \in nz : i >= j)

\* a <= b, for digit sequences without leading zeros
MagLE(a, b) ==
    \/ Len(a) < Len(b)
    \/ /\ Len(a) = Len(b)
       /\ \/ a = b
          \/ \E i \in 1..Len(a) :
                /\ DigitVal(a[i]) < DigitVal(b[i])
                /\ \A j \in 1..(i - 1) : a[j] = b[j]

I32Max == <<"2","1","4","7","4","8","3","6","4","7">>
I32MinMag == <<"2","1","4","7","4","8","3","6","4","8">>
I64Max == <<"9","2","2","3","3","7","2","0","3","6","8","5","4","7","7","5","8","0","7">>
I64MinMag == <<"9","2","2","3","3","7","2","0","3","6","8","5","4","7","7","5","8","0","8">>

ParseFail == [ok |-> FALSE]

\* from_str_radix(src, 10) of a signed integer type with the given range
ParseInt(src, maxMag, minMag) ==
    IF Len(src) = 0 THEN ParseFail
    ELSE IF src[1] \in {"+", "-"} /\ Len(src) = 1 THEN ParseFail
    ELSE LET is_positive == src[1] # "-"
             digits == IF src[1] \in {"+", "-"} THEN Tail(src) ELSE src
         IN  IF ~AllDigits(digits) THEN ParseFail
             ELSE LET mag == StripLeadingZeros(digits)
                  IN  IF MagLE(mag, IF is_positive THEN maxMag ELSE minMag)
                      THEN [ok |-> TRUE,
                            val |-> [neg |-> ~is_positive /\ mag # <<"0">>,
                                     mag |-> mag]]
                      ELSE ParseFail

\* dec2flt: Sign? ( 'inf' | 'infinity' | 'nan' | Number ), where
\* Number ::= ( Digit+ | Digit+ '.' Digit* | Digit* '.' Digit+ ) Exp? and
\* Exp ::= [eE] Sign? Digit+.  The value is kept as the decimal it was read
\* from; the rounding to the nearest f64 is not modelled.
ParseFloat(src) ==
    LET signed == Len(src) > 0 /\ src[1] \in {"+", "-"}
        neg == signed /\ src[1] = "-"
        s == IF signed THEN Tail(src) ELSE src
        low == ToLowercase(s)
        es == {i \in 1..Len(s) : s[i] \in {"e", "E"}}
        e1 == IF es = {} THEN 0 ELSE CHOOSE i \in es : \A j \in es : i <= j
        mant == IF e1 = 0 THEN s ELSE SubSeq(s, 1, e1 - 1)
        expo == IF e1 = 0 THEN <<>> ELSE SubSeq(s, e1 + 1, Len(s))
        dots == {i \in 1..Len(mant) : mant[i] = "."}
        d1 == IF dots = {} THEN 0 ELSE CHOOSE i \in dots : \A j \in dots : i <= j
        ip == IF d1 = 0 THEN mant ELSE SubSeq(mant, 1, d1 - 1)
        fp == IF d1 = 0 THEN <<>> ELSE SubSeq(mant, d1 + 1, Len(mant))
        esigned == Len(expo) > 0 /\ expo[1] \in {"+", "-"}
        ed == IF esigned THEN Tail(expo) ELSE expo
    IN  IF Len(s) = 0 THEN ParseFail
        ELSE IF low \in {<<"i","n","f">>, <<"i","n","f","i","n","i","t","y">>}
        THEN [ok |-> TRUE, val |-> [class |-> "inf", neg |-> neg]]
        ELSE IF low = <<"n","a","n">>
        THEN [ok |-> TRUE, val |-> [class |-> "nan", neg |-> neg]]
        ELSE IF /\ AllDigits(ip) /\ AllDigits(fp) /\ Len(ip) + Len(fp) >= 1
                /\ e1 = 0 \/ (AllDigits(ed) /\ Len(ed) >= 1)
        THEN [ok |-> TRUE,
              val |-> [class |-> "finite", neg |-> neg,
                       int |-> StripLeadingZeros(ip),
                       frac |-> StripTrailingZeros(fp),
                       exp |-> IF e1 = 0 THEN <<"0">> ELSE StripLeadingZeros(ed),
                       expneg |-> esigned /\ expo[1] = "-"]]
        ELSE ParseFail

\* the filler of a long string is no digit: only a string without filler parses
ParseI32(text) ==
    IF text.blocks > 0 THEN ParseFail ELSE ParseInt(text.body, I32Max, I32MinMag)
ParseI64(text) ==
    IF text.blocks > 0 THEN ParseFail ELSE ParseInt(text.body, I64Max, I64MinMag)
ParseF64(text) ==
    IF text.blocks > 0 THEN ParseFail ELSE ParseFloat(text.body)

(***************************************************************************)
(* The allocator and the host.  A heap cell is [kind, content, frees, raw]: *)
(* frees counts how often the cell was freed (2 is a double free) and raw  *)
(* says that its owner gave it up with into_raw.  The host keeps, for each *)
(* buffer handed over with a destructor, [ptr, dtor, name, bound] until it *)
(* invokes the destructor; bound is the object boxed, kept for reference.  *)
(***************************************************************************)
Ok == [ok |-> TRUE]
Err(e) == [ok |-> FALSE, err |-> e]
ErrNul == "NulError"
ErrOverflow == "i32 overflow, string to large"

Cell(kind, content, frees, raw) ==
    [kind |-> kind, content |-> content, frees |-> frees, raw |-> raw]

Free(h, p) == [h EXCEPT ![p].frees = @ + 1]

\* the bytes of a name up to its nul terminator, as the host's strcmp reads it
CStrOf(name) ==
    LET nuls == {i \in 1..Len(name) : name[i] = NUL}
    IN  SubSeq(name, 1, (CHOOSE i \in nuls : \A j \in nuls : i <= j) - 1)

\* sqlite3_value_pointer: the pointer of a value bound under the same type name
sqlite3ext_value_pointer(value, c_name) ==
    IF value.dtor = "pointer_destroy" /\ CStrOf(value.name) = CStrOf(c_name)
    THEN value.ptr
    ELSE NULL

\* value_pointer asking the host under the value's own name, not under c_name
value_pointer_NameIgnored(value, c_name) ==
    LET result == sqlite3ext_value_pointer(value, value.name)
    IN  IF result = NULL THEN None ELSE Some(result)

value_pointer(value, c_name) ==
    LET result == sqlite3ext_value_pointer(value, c_name)
    IN  IF result = NULL THEN None ELSE Some(result)

\* result_text with the length cast by `as`, as result_error casts it
ResultTextEff_AsCast(text) ==
    IF HasNul(text)
    THEN [ret |-> Err(ErrNul), heap |-> heap, pending |-> pending, calls |-> <<>>]
    ELSE LET s == Len(heap) + 1
         IN  [ret |-> Ok,
              heap |-> Append(heap, Cell("CString", text, 0, TRUE)),
              pending |-> pending \cup
                  {[ptr |-> s, dtor |-> "result_text_destructor",
                    name |-> <<>>, bound |-> text]},
              calls |-> <<[fn |-> "sqlite3ext_result_text", ptr |-> s,
                           n |-> AsI32(ByteLen(text)),
                           dtor |-> "result_text_destructor"]>>]

\* result_text: what it returns, the heap and the host afterwards, its host calls
ResultTextEff(text) ==
    IF HasNul(text)
    THEN [ret |-> Err(ErrNul), heap |-> heap, pending |-> pending, calls |-> <<>>]
    ELSE LET s == Len(heap) + 1
             n == TryIntoI32(ByteLen(text))
         IN  IF ~n.ok
             THEN \* s is dropped on the early return
                  [ret |-> Err(ErrOverflow),
                   heap |-> Append(heap, Cell("CString", text, 1, FALSE)),
                   pending |-> pending, calls |-> <<>>]
             ELSE [ret |-> Ok,
                   heap |-> Append(heap, Cell("CString", text, 0, TRUE)),
                   pending |-> pending \cup
                       {[ptr |-> s, dtor |-> "result_text_destructor",
                         name |-> <<>>, bound |-> text]},
                   calls |-> <<[fn |-> "sqlite3ext_result_text", ptr |-> s,
                                n |-> n.val,
                                dtor |-> "result_text_destructor"]>>]

\* result_error: the host copies the message and is given no destructor
ResultErrorEff(text) ==
    IF HasNul(text)
    THEN [ret |-> Err(ErrNul), heap |-> heap, pending |-> pending, calls |-> <<>>]
    ELSE LET s == Len(heap) + 1
             n == AsI32(ByteLen(text))
         IN  [ret |-> Ok,
              heap |-> Append(heap, Cell("CString", text, 0, TRUE)),
              pending |-> pending,
              calls |-> <<[fn |-> "sqlite3ext_result_error", ptr |-> s,
                           n |-> n]>>]

\* result_pointer
ResultPointerEff(name, object) ==
    LET pointer == Len(heap) + 1
    IN  [ret |-> Ok,
         heap |-> Append(heap, Cell("Box", object, 0, TRUE)),
         pending |-> pending \cup
             {[ptr |-> pointer, dtor |-> "pointer_destroy",
               name |-> name, bound |-> object]},
         calls |-> <<[fn |-> "sqlite3ext_result_pointer", ptr |-> pointer,
                      name |-> name, dtor |-> "pointer_destroy"]>>]

\* result_text_destructor and pointer_destroy: from_raw, then drop
result_text_destructor(h, raw) == Free(h, raw)
pointer_destroy(h, pointer) == Free(h, pointer)

(***************************************************************************)
(* Spec: the result setters, the pointer reclaim, and the host invoking    *)
(* the destructors it was given.                                           *)
(***************************************************************************)
Texts ==
    { Str(<<"a","b","c">>, 0), Str(<<"a",NUL,"b">>, 0),
      Str(<<"a","b">>, HalfBlocks - 1), Str(<<"a","b">>, HalfBlocks),
      Str(<<"a","b">>, Block), Str(<<NUL>>, HalfBlocks) }

Names == { <<"a",NUL>>, <<"a","b",NUL>> }
Objects == { "v1", "v2" }

Init ==
    /\ InitIdle
    /\ last = NoCall

\* no cell was freed twice; after a double free the process has no defined behaviour
NoDoubleFree == \A p \in 1..Len(heap) : heap[p].frees <= 1

Apply(op, arg, eff) ==
    /\ NoDoubleFree
    /\ Len(eff.heap) <= MaxAllocs
    /\ heap' = eff.heap
    /\ pending' = eff.pending
    /\ last' = [op |-> op, arg |-> arg, res |-> eff.ret, calls |-> eff.calls]

ResultText(text) ==
    /\ Apply("result_text", text, ResultTextEff(text))
    /\ UNCHANGED <<boxes, args, values>>

ResultError(text) ==
    /\ Apply("result_error", text, ResultErrorEff(text))
    /\ UNCHANGED <<boxes, args, values>>

ResultPointer(name, object) ==
    /\ Apply("result_pointer", [name |-> name, object |-> object],
             ResultPointerEff(name, object))
    /\ UNCHANGED <<boxes, args, values>>

ValuePointer(value, c_name) ==
    LET r == value_pointer(value, c_name)
    IN  /\ NoDoubleFree
        /\ r.some => Len(boxes) < MaxBoxes
        /\ boxes' = IF r.some THEN Append(boxes, r.val) ELSE boxes
        /\ last' = [op |-> "value_pointer",
                    arg |-> [value |-> value, c_name |-> c_name],
                    res |-> r,
                    calls |-> <<[fn |-> "sqlite3ext_value_pointer"]>>]
        /\ UNCHANGED <<heap, pending, args, values>>

\* the caller's Box goes out of scope
DropBox(i) ==
    /\ NoDoubleFree
    /\ heap' = Free(heap, boxes[i])
    /\ boxes' = [j \in 1..(Len(boxes) - 1) |-> IF j < i THEN boxes[j] ELSE boxes[j + 1]]
    /\ last' = [op |-> "drop", arg |-> boxes[i], res |-> Ok, calls |-> <<>>]
    /\ UNCHANGED <<pending, args, values>>

\* the host invokes the destructor registered with a buffer, once
HostDestroy(v) ==
    /\ NoDoubleFree
    /\ heap' = IF v.dtor = "pointer_destroy"
               THEN pointer_destroy(heap, v.ptr)
               ELSE result_text_destructor(heap, v.ptr)
    /\ pending' = pending \ {v}
    /\ last' = [op |-> v.dtor, arg |-> v.ptr, res |-> Ok, calls |-> <<>>]
    /\ UNCHANGED <<boxes, args, values>>

\* Spec: a value is bound as a pointer, reclaimed, dropped, destroyed
Next ==
    \/ \E name \in Names, object \in Objects : ResultPointer(name, object)
    \/ \E value \in pending, c_name \in Names : ValuePointer(value, c_name)
    \/ \E i \in 1..Len(boxes) : DropBox(i)
    \/ \E v \in pending : HostDestroy(v)

Spec == Init /\ [][Next]_vars

\* SpecSetters: the setters that release a buffer, and the host's destructor calls
NextSetters ==
    \/ \E text \in Texts : ResultText(text)
    \/ \E text \in Texts : ResultError(text)
    \/ \E name \in Names, object \in Objects : ResultPointer(name, object)
    \/ \E v \in pending : HostDestroy(v)

SpecSetters == Init /\ [][NextSetters]_vars

(***************************************************************************)
(* Ownership of what the setters release to the host.                      *)
(***************************************************************************)
\* C1: a value boxed by result_pointer is freed at most once, whatever
\* sequence of value_pointer reclaims, drops of the reclaimed Box and host
\* calls of pointer_destroy follows: never twice, never by both sides.
C1_BoxFreedAtMostOnce ==
    \A p \in 1..Len(heap) : heap[p].kind = "Box" => heap[p].frees <= 1

\* C2: every buffer released to the host and not yet freed is held by the
\* host with exactly one destructor, and once the host has invoked every
\* destructor it was given each released buffer has been freed exactly once.
C2_ReleasedWithOneDestructor ==
    /\ \A p \in 1..Len(heap) :
          (heap[p].raw /\ heap[p].frees = 0) =>
              Cardinality({v \in pending : v.ptr = p}) = 1
    /\ pending = {} => \A p \in 1..Len(heap) : heap[p].raw => heap[p].frees = 1

\* C3: value_pointer under the name a value was bound with returns a Box of
\* the host's pointer, which holds the object bound as long as the cell is
\* live; under another name it returns None and changes neither the heap, nor
\* what the host holds, nor the caller's boxes.
C3_PointerRoundTrip ==
    [][last'.op = "value_pointer" =>
        LET value == last'.arg.value
            c_name == last'.arg.c_name
        IN  IF value.dtor = "pointer_destroy" /\ value.name = c_name
            THEN /\ last'.res = Some(value.ptr)
                 /\ boxes' = Append(boxes, value.ptr)
                 /\ heap[value.ptr].frees = 0 =>
                        /\ heap'[value.ptr].frees = 0
                        /\ heap'[value.ptr].content = value.bound
            ELSE /\ last'.res = None
                 /\ UNCHANGED <<heap, pending, boxes>>]_vars

\* a bound value was reclaimed under its own name while its cell was live
C3_Witness ==
    /\ last.op = "value_pointer"
    /\ last.arg.value.name = last.arg.c_name
    /\ last.res = Some(last.arg.value.ptr)
    /\ heap[last.res.val].frees = 0
    /\ heap[last.res.val].content = last.arg.value.bound

\* the byte length of a text fits the host's 32-bit signed length
FitsI32(text) == text.blocks < HalfBlocks

\* C8: result_text fails with the nul error on an embedded nul byte and with
\* the overflow error on a nul-free text of more than i32::MAX bytes, and then
\* makes no host call and releases no buffer; otherwise it makes exactly one
\* sqlite3ext_result_text call, with the text's byte length and the destructor
\* of the buffer it passes.
C8_ResultText ==
    [][last'.op = "result_text" =>
        LET text == last'.arg
            new == (1..Len(heap')) \ (1..Len(heap))
        IN  IF HasNul(text) \/ ~FitsI32(text)
            THEN /\ last'.res = Err(IF HasNul(text) THEN ErrNul ELSE ErrOverflow)
                 /\ last'.calls = <<>>
                 /\ pending' = pending
                 /\ \A p \in 1..Len(heap) : heap'[p] = heap[p]
                 /\ \A p \in new : ~heap'[p].raw /\ heap'[p].frees = 1
            ELSE /\ last'.res = Ok
                 /\ Len(last'.calls) = 1
                 /\ last'.calls[1].fn = "sqlite3ext_result_text"
                 /\ last'.calls[1].n = text.blocks * Block + Len(text.body)
                 /\ last'.calls[1].dtor = "result_text_destructor"
                 /\ new = {last'.calls[1].ptr}
                 /\ heap'[last'.calls[1].ptr] = Cell("CString", text, 0, TRUE)
                 /\ {v \in pending' : v.ptr \in new} = pending' \ pending
                 /\ \A v \in pending' \ pending : v.dtor = "result_text_destructor"
                 /\ Cardinality(pending' \ pending) = 1]_vars

\* result_text refused a text of more than i32::MAX bytes
C8_Witness ==
    /\ last.op = "result_text"
    /\ ~HasNul(last.arg)
    /\ ~FitsI32(last.arg)
    /\ last.res = Err(ErrOverflow)

\* C9: result_error fails with the nul error on an embedded nul byte and with
\* the overflow error when the message is longer than i32::MAX bytes, and the
\* length it passes to the host is the message's byte length.
C9_ResultErrorLength ==
    last.op = "result_error" =>
        IF HasNul(last.arg) THEN last.res = Err(ErrNul)
        ELSE IF ~FitsI32(last.arg) THEN last.res = Err(ErrOverflow)
        ELSE /\ last.res = Ok
             /\ last.calls[1].n = last.arg.blocks * Block + Len(last.arg.body)

(***************************************************************************)
(* ColumnAffinity::result_text, and SpecCoerce: one call of it on an       *)
(* affinity and a text value.                                              *)
(***************************************************************************)
\* result_int, result_int64 and result_double: one host call, nothing allocated
NumberEff(fn, val) ==
    [ret |-> Ok, heap |-> heap, pending |-> pending,
     calls |-> <<[fn |-> fn, val |-> val]>>]

\* ColumnAffinity::result_text with the Integer arm trying f64 as the Numeric arm does
ColumnAffinityResultTextEff_IntegerTriesF64(self, value) ==
    IF self \in {"Numeric", "Integer"}
    THEN IF ParseI32(value).ok
         THEN NumberEff("sqlite3ext_result_int", ParseI32(value).val)
         ELSE IF ParseI64(value).ok
         THEN NumberEff("sqlite3ext_result_int64", ParseI64(value).val)
         ELSE IF ParseF64(value).ok
         THEN NumberEff("sqlite3ext_result_double", ParseF64(value).val)
         ELSE ResultTextEff(value)
    ELSE IF self = "Real"
    THEN IF ParseF64(value).ok
         THEN NumberEff("sqlite3ext_result_double", ParseF64(value).val)
         ELSE ResultTextEff(value)
    ELSE ResultTextEff(value)

\* ColumnAffinity::result_text with the error of the text setter dropped
ColumnAffinityResultTextEff_ErrorDropped(self, value) ==
    LET e == ResultTextEff(value)
    IN  IF self \in {"Numeric", "Integer"} /\ ParseI32(value).ok
        THEN NumberEff("sqlite3ext_result_int", ParseI32(value).val)
        ELSE IF self \in {"Numeric", "Integer"} /\ ParseI64(value).ok
        THEN NumberEff("sqlite3ext_result_int64", ParseI64(value).val)
        ELSE IF self \in {"Numeric", "Real"} /\ ParseF64(value).ok
        THEN NumberEff("sqlite3ext_result_double", ParseF64(value).val)
        ELSE [e EXCEPT !.ret = Ok]

ColumnAffinityResultTextEff(self, value) ==
    CASE self = "Numeric" ->
            IF ParseI32(value).ok
            THEN NumberEff("sqlite3ext_result_int", ParseI32(value).val)
            ELSE IF ParseI64(value).ok
            THEN NumberEff("sqlite3ext_result_int64", ParseI64(value).val)
            ELSE IF ParseF64(value).ok
            THEN NumberEff("sqlite3ext_result_double", ParseF64(value).val)
            ELSE ResultTextEff(value)
      [] self = "Integer" ->
            IF ParseI32(value).ok
            THEN NumberEff("sqlite3ext_result_int", ParseI32(value).val)
            ELSE IF ParseI64(value).ok
            THEN NumberEff("sqlite3ext_result_int64", ParseI64(value).val)
            ELSE ResultTextEff(value)
      [] self = "Real" ->
            IF ParseF64(value).ok
            THEN NumberEff("sqlite3ext_result_double", ParseF64(value).val)
            ELSE ResultTextEff(value)
      [] self \in {"Blob", "Text"} -> ResultTextEff(value)

Affinities == {"Text", "Integer", "Real", "Blob", "Numeric"}

CoerceBodies ==
    {
      <<"4","2">>, <<"0","4","2">>, <<"+","5">>, <<"-","7">>, <<"-","0">>,
      <<"2","1","4","7","4","8","3","6","4","7">>,
      <<"2","1","4","7","4","8","3","6","4","8">>,
      <<"-","2","1","4","7","4","8","3","6","4","8">>,
      <<"-","2","1","4","7","4","8","3","6","4","9">>,
      <<"9","9","9","9","9","9","9","9","9","9">>,
      <<"9","2","2","3","3","7","2","0","3","6","8","5","4","7","7","5","8","0","7">>,
      <<"9","2","2","3","3","7","2","0","3","6","8","5","4","7","7","5","8","0","8">>,
      <<"-","9","2","2","3","3","7","2","0","3","6","8","5","4","7","7","5","8","0","8">>,
      <<"-","9","2","2","3","3","7","2","0","3","6","8","5","4","7","7","5","8","0","9">>,
      <<"3",".","1","4">>, <<"-","3",".","5">>, <<".","5">>, <<"5",".">>,
      <<"1","e","5">>, <<"1","E","-","2">>, <<"1","e","+">>, <<"e","5">>,
      <<".">>, <<"i","n","f">>, <<"-","I","n","f","i","n","i","t","y">>,
      <<"N","a","N">>, <<"a","b","c">>, <<>>, <<" ","4","2">>,
      <<"4","2"," ">>, <<"0","x","1","0">>, <<"1","_","0","0","0">>, <<"+">>,
      <<"-">>, <<"1",".","2",".","3">>, <<"-","-","5">>, <<"4",NUL,"2">>,
      <<"a",NUL,"b">>, <<NUL>>
    }

CoerceTexts ==
    { Str(b, 0) : b \in CoerceBodies }
        \cup { Str(<<"4","2">>, HalfBlocks), Str(<<"4","2">>, HalfBlocks - 1) }

InitCoerce ==
    /\ InitIdle
    /\ \E self \in Affinities, value \in CoerceTexts :
          last = [op |-> "input", arg |-> [self |-> self, value |-> value]]

ColumnAffinityResultText ==
    /\ last.op = "input"
    /\ Apply("ColumnAffinity::result_text", last.arg,
             ColumnAffinityResultTextEff(last.arg.self, last.arg.value))
    /\ UNCHANGED <<boxes, args, values>>

NextCoerce == ColumnAffinityResultText

SpecCoerce == InitCoerce /\ [][NextCoerce]_vars

\* the numeric tiers an affinity tries, in order
TiersOf(self) ==
    CASE self = "Numeric" -> <<"i32", "i64", "f64">>
      [] self = "Integer" -> <<"i32", "i64">>
      [] self = "Real" -> <<"f64">>
      [] OTHER -> <<>>

ParseAs(tier, value) ==
    CASE tier = "i32" -> ParseI32(value)
      [] tier = "i64" -> ParseI64(value)
      [] tier = "f64" -> ParseF64(value)

SetterOf(tier) ==
    CASE tier = "i32" -> "sqlite3ext_result_int"
      [] tier = "i64" -> "sqlite3ext_result_int64"
      [] tier = "f64" -> "sqlite3ext_result_double"

\* the tiers of the affinity at which the value parses
Parsing(self, value) ==
    {k \in 1..Len(TiersOf(self)) : ParseAs(TiersOf(self)[k], value).ok}

\* the call wrote the text, unchanged, as the text result
EmitsTextVerbatim(value) ==
    /\ Len(last.calls) = 1
    /\ last.calls[1].fn = "sqlite3ext_result_text"
    /\ heap[last.calls[1].ptr].content = value

\* the call wrote the number the first parsing tier gives
EmitsFirstTier(self, value) ==
    LET k == CHOOSE k \in Parsing(self, value) :
                 \A j \in Parsing(self, value) : k <= j
        tier == TiersOf(self)[k]
    IN  last.calls = <<[fn |-> SetterOf(tier), val |-> ParseAs(tier, value).val]>>

\* the text setter accepts the value: no nul byte, at most i32::MAX bytes
TextAccepted(value) == ~HasNul(value) /\ FitsI32(value)

IntVal(neg, mag) == [neg |-> neg, mag |-> mag]

\* the examples of the documentation
CoerceExamples ==
    LET self == last.arg.self
        body == last.arg.value.body
        short == last.arg.value.blocks = 0
    IN  /\ (self = "Numeric" /\ short /\ body = <<"4","2">>) =>
              last.calls = <<[fn |-> "sqlite3ext_result_int",
                              val |-> IntVal(FALSE, <<"4","2">>)]>>
        /\ (self = "Numeric" /\ short
              /\ body = <<"9","9","9","9","9","9","9","9","9","9">>) =>
              last.calls = <<[fn |-> "sqlite3ext_result_int64",
                              val |-> IntVal(FALSE, body)]>>
        /\ (self = "Numeric" /\ short /\ body = <<"3",".","1","4">>) =>
              /\ last.calls[1].fn = "sqlite3ext_result_double"
              /\ last.calls[1].val.int = <<"3">>
              /\ last.calls[1].val.frac = <<"1","4">>
        /\ (self = "Numeric" /\ short /\ body = <<"a","b","c">>) =>
              EmitsTextVerbatim(last.arg.value)
        /\ (self = "Integer" /\ short /\ body = <<"3",".","1","4">>) =>
              EmitsTextVerbatim(last.arg.value)

\* C6 as stated: the first tier of the affinity at which the text parses is
\* emitted (Numeric: i32, i64, f64; Integer: i32, i64; Real: f64; Blob and
\* Text: none), and when none does the text is emitted unchanged.
C6_MostSpecificTier ==
    last.op = "ColumnAffinity::result_text" =>
        LET self == last.arg.self
            value == last.arg.value
        IN  /\ IF Parsing(self, value) # {}
               THEN EmitsFirstTier(self, value)
               ELSE EmitsTextVerbatim(value)
            /\ CoerceExamples

\* C6 as amended: as stated, but when no tier parses the text is emitted
\* unchanged only if the text setter accepts it; if not, nothing is emitted.
C6_MostSpecificTierOrNothing ==
    last.op = "ColumnAffinity::result_text" =>
        LET self == last.arg.self
            value == last.arg.value
        IN  /\ IF Parsing(self, value) # {}
               THEN EmitsFirstTier(self, value)
               ELSE IF TextAccepted(value)
               THEN EmitsTextVerbatim(value)
               ELSE last.calls = <<>>
            /\ self = "Integer" =>
                  \A k \in 1..Len(last.calls) :
                      last.calls[k].fn # "sqlite3ext_result_double"
            /\ CoerceExamples

\* "3.14" under Integer affinity came out as the text "3.14"
C6_Witness ==
    /\ last.op = "ColumnAffinity::result_text"
    /\ last.arg.self = "Integer"
    /\ last.arg.value = Str(<<"3",".","1","4">>, 0)
    /\ EmitsTextVerbatim(last.arg.value)

\* C7 as stated: for every affinity and every text the call returns Ok after
\* writing a result.
C7_NeverFails ==
    last.op = "ColumnAffinity::result_text" =>
        /\ last.res = Ok
        /\ Len(last.calls) = 1

\* C7 as amended: the call returns Ok after writing one result, except when no
\* tier of the affinity parses the text and the text has an embedded nul byte
\* or more than i32::MAX bytes: then it returns the text setter's error and
\* writes nothing.
C7_FailsOnlyInTextFallback ==
    last.op = "ColumnAffinity::result_text" =>
        LET self == last.arg.self
            value == last.arg.value
        IN  IF Parsing(self, value) # {} \/ TextAccepted(value)
            THEN last.res = Ok /\ Len(last.calls) = 1
            ELSE /\ last.res = Err(IF HasNul(value) THEN ErrNul ELSE ErrOverflow)
                 /\ last.calls = <<>>
                 /\ pending = {}

\* a text with an embedded nul byte reached the text fallback and was refused
C7_Witness ==
    /\ last.op = "ColumnAffinity::result_text"
    /\ HasNul(last.arg.value)
    /\ last.arg.self = "Numeric"
    /\ last.res = Err(ErrNul)
    /\ last.calls = <<>>

(***************************************************************************)
(* Value, and SpecValue: Values are built from the host's argument array   *)
(* and guarded against null.                                               *)
(***************************************************************************)
SQLITE_INTEGER == 1
SQLITE_FLOAT == 2
SQLITE_TEXT == 3
SQLITE_BLOB == 4
SQLITE_NULL == 5

RawTypes == {SQLITE_INTEGER, SQLITE_FLOAT, SQLITE_TEXT, SQLITE_BLOB, SQLITE_NULL}

\* value_type: sqlite3ext_value_type's code of the value as a ValueType
value_type(value) ==
    LET raw_type == args[value]
    IN  CASE raw_type = SQLITE_TEXT -> "Text"
          [] raw_type = SQLITE_INTEGER -> "Integer"
          [] raw_type = SQLITE_FLOAT -> "Float"
          [] raw_type = SQLITE_BLOB -> "Blob"
          [] raw_type = SQLITE_NULL -> "Null"

TypeQuery(value) == [fn |-> "sqlite3ext_value_type", value |-> value]

\* a Value struct: the handle and the type resolved when it was built
ValueStruct(value) == [value |-> value, value_type |-> value_type(value)]

\* notnull_or with the test inverted
notnull_or_Inverted(self, error) ==
    IF values[self].value_type = "Null" THEN [ok |-> TRUE, ref |-> self]
    ELSE Err(error)

\* Value::notnull_or; self is the position of the Value in values
notnull_or(self, error) ==
    IF values[self].value_type # "Null" THEN [ok |-> TRUE, ref |-> self]
    ELSE Err(error)

\* Value::notnull_or_else: what it returns and how often it called err
notnull_or_else(self, err) ==
    IF values[self].value_type # "Null"
    THEN [ret |-> [ok |-> TRUE, ref |-> self], err_calls |-> 0]
    ELSE [ret |-> Err(err), err_calls |-> 1]

Errors == {"E1", "E2"}

InitValue ==
    /\ heap = <<>>
    /\ pending = {}
    /\ boxes = <<>>
    /\ values = <<>>
    /\ last = NoCall
    /\ args \in [1..NumArgs -> RawTypes]

\* Value::from
ValueFrom(value) ==
    /\ Len(values) < MaxValues
    /\ values' = Append(values, ValueStruct(value))
    /\ last' = [op |-> "Value::from", arg |-> value,
                res |-> [ok |-> TRUE, val |-> ValueStruct(value)],
                calls |-> <<TypeQuery(value)>>]
    /\ UNCHANGED <<heap, pending, boxes, args>>

\* Value::at; at counts from 0
ValueAt(at) ==
    /\ Len(values) < MaxValues
    /\ IF at < Len(args)
       THEN /\ values' = Append(values, ValueStruct(at + 1))
            /\ last' = [op |-> "Value::at", arg |-> at,
                        res |-> Some(ValueStruct(at + 1)),
                        calls |-> <<TypeQuery(at + 1)>>]
       ELSE /\ values' = values
            /\ last' = [op |-> "Value::at", arg |-> at, res |-> None,
                        calls |-> <<>>]
    /\ UNCHANGED <<heap, pending, boxes, args>>

NotnullOr(self, error) ==
    /\ last' = [op |-> "notnull_or", arg |-> [self |-> self, error |-> error],
                res |-> notnull_or(self, error), err_calls |-> 0,
                calls |-> <<>>]
    /\ UNCHANGED <<heap, pending, boxes, args, values>>

NotnullOrElse(self, err) ==
    /\ last' = [op |-> "notnull_or_else", arg |-> [self |-> self, error |-> err],
                res |-> notnull_or_else(self, err).ret,
                err_calls |-> notnull_or_else(self, err).err_calls,
                calls |-> <<>>]
    /\ UNCHANGED <<heap, pending, boxes, args, values>>

(***************************************************************************)
(* value_text and Value::text_or_else.  The host's text is a sequence of   *)
(* bytes (0..255) that ends at its first 0 byte; for a value of type       *)
(* SQLITE_NULL sqlite3_value_text returns the null pointer.                *)
(***************************************************************************)
\* the text the host may hold for a value: ASCII, two- and four-byte
\* characters, a stray 0xFF, a cut-off lead byte, a lead byte without its
\* continuation, a surrogate, an overlong form, bytes after a 0 byte
HostTexts ==
    { <<104, 105>>, <<>>, <<195, 169>>, <<240, 159, 152, 128>>,
      <<255>>, <<195>>, <<195, 40>>, <<237, 160, 128>>, <<224, 128, 128>>,
      <<97, 0, 255>> }

\* sqlite3ext_value_text: a pointer to the host's text of the value (the
\* buffer of value number n is at address n), NULL for a null value
sqlite3ext_value_text(value, text) ==
    IF args[value] = SQLITE_NULL THEN [addr |-> NULL]
    ELSE [addr |-> value, bytes |-> text]

\* CStr::from_ptr: the bytes before the first 0 byte
CStrFromPtr(c_string) ==
    LET nuls == {i \in 1..Len(c_string) : c_string[i] = 0}
    IN  IF nuls = {} THEN c_string
        ELSE SubSeq(c_string, 1, (CHOOSE i \in nuls : \A j \in nuls : i <= j) - 1)

IsCont(b) == b \in 128..191

\* core::str::from_utf8's validation, from position i on
RECURSIVE ValidUtf8From(_, _)
ValidUtf8From(b, i) ==
    LET at(k) == IF k <= Len(b) THEN b[k] ELSE 0
        first == b[i]
        second == at(i + 1)
    IN  IF i > Len(b) THEN TRUE
        ELSE IF first < 128 THEN ValidUtf8From(b, i + 1)
        ELSE IF first \in 194..223
        THEN IsCont(second) /\ ValidUtf8From(b, i + 2)
        ELSE IF first \in 224..239
        THEN /\ \/ first = 224 /\ second \in 160..191
                \/ first \in 225..236 /\ IsCont(second)
                \/ first = 237 /\ second \in 128..159
                \/ first \in 238..239 /\ IsCont(second)
             /\ IsCont(at(i + 2))
             /\ ValidUtf8From(b, i + 3)
        ELSE IF first \in 240..244
        THEN /\ \/ first = 240 /\ second \in 144..191
                \/ first \in 241..243 /\ IsCont(second)
                \/ first = 244 /\ second \in 128..143
             /\ IsCont(at(i + 2))
             /\ IsCont(at(i + 3))
             /\ ValidUtf8From(b, i + 4)
        ELSE FALSE

ErrUtf8 == "Utf8Error"
Segfault == [ok |-> FALSE, err |-> "SIGSEGV", crashed |-> TRUE]

\* CStr::to_str, with ? turning the Utf8Error into an Error
ToStr(string) ==
    IF ValidUtf8From(string, 1) THEN [ok |-> TRUE, val |-> string]
    ELSE Err(ErrUtf8)

\* value_text: the results it can have.  The test of the value's type is
\* commented out, so for a null value CStr::from_ptr reads through the null
\* pointer: the process is killed, or whatever bytes are found are decoded.
value_text(value, text) ==
    LET c_string == sqlite3ext_value_text(value, text)
    IN  IF c_string.addr = NULL
        THEN {Segfault} \cup {ToStr(CStrFromPtr(found)) : found \in HostTexts}
        ELSE {ToStr(CStrFromPtr(c_string.bytes))}

\* the caller's error mapper applied to an Error
Mappers == {"M1", "M2"}
MapErr(error, err) == [ok |-> FALSE, err |-> err, mapped_by |-> error]

\* Value::text_or_else: the results it can have
text_or_else(self, text, error) ==
    { IF r.ok \/ r = Segfault THEN r ELSE MapErr(error, r.err) :
          r \in value_text(values[self].value, text) }

TextQuery(value) == [fn |-> "sqlite3ext_value_text", value |-> value]

\* the process is running: no call has killed it
Running == IF last.op = "text_or_else" THEN last.res # Segfault ELSE TRUE

TextOrElse(self, text, error) ==
    /\ \E r \in text_or_else(self, text, error) :
          last' = [op |-> "text_or_else",
                   arg |-> [self |-> self, text |-> text, error |-> error],
                   res |-> r, err_calls |-> IF r.ok \/ r = Segfault THEN 0 ELSE 1,
                   calls |-> <<TextQuery(values[self].value)>>]
    /\ UNCHANGED <<heap, pending, boxes, args, values>>

NextValue ==
    /\ Running
    /\ \/ \E value \in 1..Len(args) : ValueFrom(value)
       \/ \E at \in 0..Len(args) : ValueAt(at)
       \/ \E self \in 1..Len(values), error \in Errors : NotnullOr(self, error)
       \/ \E self \in 1..Len(values), err \in Errors : NotnullOrElse(self, err)
       \/ \E self \in 1..Len(values), text \in HostTexts, error \in Mappers :
             TextOrElse(self, text, error)

SpecValue == InitValue /\ [][NextValue]_vars

\* C10: notnull_or and notnull_or_else return the caller's error (notnull_or_else
\* calling its closure once, and only then) when the tag the Value was built
\* with is Null, and a reference to the same Value, left unchanged, for Text,
\* Integer, Float and Blob; neither asks the host for the type again.
C10_NullGuard ==
    [][last'.op \in {"notnull_or", "notnull_or_else"} =>
        LET self == last'.arg.self
            tag == values[self].value_type
        IN  /\ values' = values
            /\ last'.calls = <<>>
            /\ tag \in {"Null", "Text", "Integer", "Float", "Blob"}
            /\ IF tag = "Null"
               THEN /\ last'.res = Err(last'.arg.error)
                    /\ last'.err_calls =
                          IF last'.op = "notnull_or_else" THEN 1 ELSE 0
               ELSE /\ last'.res = [ok |-> TRUE, ref |-> self]
                    /\ last'.err_calls = 0]_vars

\* notnull_or_else called its closure for a Value built from a null argument
C10_Witness ==
    /\ last.op = "notnull_or_else"
    /\ args[values[last.arg.self].value] = SQLITE_NULL
    /\ last.res = Err(last.arg.error)
    /\ last.err_calls = 1

\* C11: text_or_else returns an Err that went through the caller's error
\* mapper whenever the value's type is SQLITE_NULL, and then without calling
\* the host's text accessor, and whenever the host's text is not valid UTF-8.
C11_TextOrElseFails ==
    last.op = "text_or_else" =>
        LET value == values[last.arg.self].value
            failed == /\ ~last.res.ok
                      /\ last.res # Segfault
                      /\ last.res.mapped_by = last.arg.error
                      /\ last.err_calls = 1
        IN  IF args[value] = SQLITE_NULL
            THEN failed /\ last.calls = <<>>
            ELSE ~ValidUtf8From(CStrFromPtr(last.arg.text), 1) => failed

=============================================================================
